---- MODULE Spec2Model ----
(***************************************************************************)
(* Model of backend/app/main.py of route-weather-webapp: the POST          *)
(* /api/route handler (route_weather), the weather selector                *)
(* (select_weather_by_eta) and the proportional point sampler              *)
(* (pick_waypoint_points).                                                 *)
(*                                                                         *)
(* Conventions.  Python/JSON values are records tagged by field t:         *)
(*   None -> [t |-> "None"], str -> [t |-> "str", s |-> ...],              *)
(*   dict -> [t |-> "dict", empty |-> len(d) = 0, <key> |-> value ...]     *)
(*           (an absent key is the value None, which is all d.get(k) can   *)
(*           observe), list -> [t |-> "list", l |-> sequence],             *)
(*   number or boolean -> [t |-> "int", v |-> its value] (false is 0).     *)
(* Optional strings (weather_error, weather_source, adcode) use the string *)
(* "None" for Python's None.  A datetime is [wall, off, aware]: seconds of  *)
(* the wall clock since the epoch, the UTC offset in seconds, and whether  *)
(* tzinfo is set (off is 0 when it is not).  Strings that the code splits  *)
(* (polylines) are sequences of tokens.  A call that may raise returns     *)
(* [ok |-> TRUE, val |-> v] or [ok |-> FALSE, exc |-> <exception type>].   *)
(***************************************************************************)
EXTENDS Integers, Sequences, FiniteSets, TLC

VARIABLES
    \* ---- one POST /api/route request (route_weather) ----
    pc,         \* position of the handler
    req,        \* the request body: strategy, depart_at
    env_key,    \* whether AMAP_API_KEY is set
    now,        \* the wall clock (seconds since the epoch, UTC)
    calls,      \* provider calls issued so far, in order
    failed_at,  \* number of calls issued when a fatal call failed (0: none)
    error,      \* the exception that left the handler, "None" while there is none
    origin, dest, duration_s, depart_at,
    branch,     \* "cities" | "points" | "None"
    items,      \* cross_cities or sampled points still to be processed, with i
    i,
    cur,        \* the locals of the iteration in progress
    wlog,       \* per processed candidate: what its weather calls did
    waypoints,  \* waypoints appended so far
    response,   \* the RouteResponse, [t |-> "None"] until returned
    \* ---- the weather selector called twice on the same inputs ----
    s_pc, s_live, s_forecast, s_eta, s_now1, s_res1, s_res2,
    \* ---- the sampling walk of pick_waypoint_points ----
    p_pc, p_steps, p_ti, p_tacc, p_seg, p_out

vars == <<pc, req, env_key, now, calls, failed_at, error, origin, dest,
          duration_s, depart_at, branch, items, i, cur, wlog, waypoints, response,
          s_pc, s_live, s_forecast, s_eta, s_now1, s_res1, s_res2,
          p_pc, p_steps, p_ti, p_tacc, p_seg, p_out>>

reqVars == <<pc, req, env_key, calls, failed_at, error, origin, dest,
             duration_s, depart_at, branch, items, i, cur, wlog, waypoints, response>>
selVars == <<s_pc, s_live, s_forecast, s_eta, s_now1, s_res1, s_res2>>
pickVars == <<p_pc, p_steps, p_ti, p_tacc, p_seg, p_out>>

-----------------------------------------------------------------------------
\* Values

NoneV == [t |-> "None"]
EmptyDict == [t |-> "dict", empty |-> TRUE]
Str(x) == [t |-> "str", s |-> x]
List(q) == [t |-> "list", l |-> q]
Num(n) == [t |-> "int", v |-> n]

\* Python truth value of a JSON value: None, {}, [], "", 0 and false are
\* false.
Truthy(v) ==
    CASE v.t = "None" -> FALSE
      [] v.t = "dict" -> ~v.empty
      [] v.t = "list" -> Len(v.l) > 0
      [] v.t = "str" -> v.s # ""
      [] v.t = "int" -> v.v # 0

Ok(v) == [ok |-> TRUE, val |-> v]
Raise(e) == [ok |-> FALSE, exc |-> e]

\* d.get(k) for the keys the code reads; raises AttributeError on a non-dict.
HasGet(v) == v.t = "dict"
Get(d, k) == IF k \in DOMAIN d THEN d[k] ELSE NoneV

HourS == 60 * 60
DayS == 24 * HourS
TwoHours == 2 * 3600
TzShanghai == 8 * HourS

\* The absolute instant (UTC seconds) of an aware datetime.
Instant(dt) == dt.wall - dt.off
\* dt.astimezone(timezone.utc)
AsUtc(dt) == [wall |-> Instant(dt), off |-> 0, aware |-> TRUE]
\* dt + timedelta(minutes=m)
PlusMinutes(dt, m) == [wall |-> dt.wall + 60 * m, off |-> dt.off, aware |-> dt.aware]
\* .date(): year, month and day of the proleptic Gregorian calendar for the
\* day number days (0 is 1970-01-01), years counted from March in 400-year
\* eras of 146097 days
CivilFromDays(days) ==
    LET z == days + 719468
        era == z \div 146097
        doe == z - era * 146097
        yoe == (doe - doe \div 1460 + doe \div 36524 - doe \div 146096) \div 365
        doy == doe - (365 * yoe + yoe \div 4 - yoe \div 100)
        mp == (5 * doy + 2) \div 153
        m == IF mp < 10 THEN mp + 3 ELSE mp - 9
    IN [year |-> yoe + era * 400 + (IF m <= 2 THEN 1 ELSE 0),
        month |-> m,
        day |-> doy - (153 * mp + 2) \div 5 + 1]
\* zero-padded decimal fields of isoformat()
Pad2(n) == IF n < 10 THEN "0" \o ToString(n) ELSE ToString(n)
Pad4(n) ==
    IF n < 10 THEN "000" \o ToString(n)
    ELSE IF n < 100 THEN "00" \o ToString(n)
    ELSE IF n < 1000 THEN "0" \o ToString(n)
    ELSE ToString(n)
\* .date().isoformat(): "YYYY-MM-DD" of the wall clock's calendar day
IsoDate(dt) ==
    LET c == CivilFromDays(dt.wall \div DayS)
    IN Str(Pad4(c.year) \o "-" \o Pad2(c.month) \o "-" \o Pad2(c.day))
HourOf(dt) == (dt.wall % DayS) \div HourS

-----------------------------------------------------------------------------
\* select_weather_by_eta

IsCloseStrict(delta) == delta < TwoHours
\* delta.total_seconds() <= 2 * 3600
IsClose(delta) == delta <= TwoHours

LiveIfCloseUnchecked(live, delta) == IsClose(delta)
\* if delta.total_seconds() <= 2 * 3600: if live: (return live)
LiveIfClose(live, delta) == IsClose(delta) /\ Truthy(live)

\* is_day = 6 <= hour < 18
IsDay(hour) == 6 <= hour /\ hour < 18

\* next((c for c in casts if c.get("date") == target_date), casts[0]) on a
\* non-empty list: the scan is lazy and stops at the first match; an element
\* that is no dict raises AttributeError when it is reached.
RECURSIVE ScanCasts(_, _, _)
ScanCasts(l, k, target_date) ==
    IF k > Len(l) THEN Ok(l[1])
    ELSE IF ~HasGet(l[k]) THEN Raise("AttributeError")
    ELSE IF Get(l[k], "date") = target_date THEN Ok(l[k])
    ELSE ScanCasts(l, k + 1, target_date)

\* the cast selection of line 190 for a truthy casts value.  The generator
\* takes iter(casts) at once (TypeError for a number), then the default
\* casts[0] is evaluated (KeyError for a dict, whose keys are strings), then
\* next() scans (AttributeError for the characters of a string).
PickCast(casts, target_date) ==
    IF casts.t = "list" THEN ScanCasts(casts.l, 1, target_date)
    ELSE IF casts.t = "str" THEN Raise("AttributeError")
    ELSE IF casts.t = "dict" THEN Raise("KeyError")
    ELSE Raise("TypeError")

\* the display payload built from the chosen cast
BuildWeather(cast, forecast, is_day) ==
    [t |-> "dict", empty |-> FALSE,
     weather |-> IF is_day THEN Get(cast, "dayweather") ELSE Get(cast, "nightweather"),
     temperature |-> IF is_day THEN Get(cast, "daytemp") ELSE Get(cast, "nighttemp"),
     reporttime |-> Get(forecast, "reporttime"),
     city |-> Get(forecast, "city"),
     province |-> Get(forecast, "province"),
     _forecast |-> [t |-> "dict", empty |-> FALSE,
                    date |-> Get(cast, "date"),
                    dayweather |-> Get(cast, "dayweather"),
                    nightweather |-> Get(cast, "nightweather"),
                    daytemp |-> Get(cast, "daytemp"),
                    nighttemp |-> Get(cast, "nighttemp"),
                    daywind |-> Get(cast, "daywind"),
                    nightwind |-> Get(cast, "nightwind"),
                    daypower |-> Get(cast, "daypower"),
                    nightpower |-> Get(cast, "nightpower")]]

\* if eta_time.tzinfo is None: eta_time = eta_time.replace(tzinfo=timezone.utc)
NaiveAsUtc(dt) == IF ~dt.aware THEN [wall |-> dt.wall, off |-> 0, aware |-> TRUE] ELSE dt

\* The body of the try block: Ok(<<weather, source, error>>) or Raise(type).
\* clock is the value datetime.now(timezone.utc) returns inside the call.
SelectTry(live, forecast, eta_time, clock) ==
    LET eta == NaiveAsUtc(eta_time)
        delta == Instant(eta) - clock
    IN  IF LiveIfClose(live, delta) THEN Ok(<<live, "live", "None">>)
        ELSE IF ~Truthy(forecast) THEN
            IF Truthy(live) THEN Ok(<<live, "live", "None">>)
            ELSE Ok(<<NoneV, "none", "forecast_unavailable">>)
        ELSE IF ~HasGet(forecast) THEN Raise("AttributeError")
        ELSE LET casts == IF Truthy(Get(forecast, "casts"))
                          THEN Get(forecast, "casts") ELSE List(<<>>)
             IN IF ~Truthy(casts) THEN
                    IF Truthy(live) THEN Ok(<<live, "live", "None">>)
                    ELSE Ok(<<NoneV, "none", "forecast_empty">>)
                ELSE LET c == PickCast(casts, IsoDate(AsUtc(eta)))
                     IN IF ~c.ok THEN c
                        ELSE Ok(<<BuildWeather(c.val, forecast, IsDay(HourOf(AsUtc(eta)))),
                                  "forecast", "None">>)

SelectNoCatch(live, forecast, eta_time, clock) ==
    LET r == SelectTry(live, forecast, eta_time, clock)
    IN IF r.ok THEN r.val ELSE <<NoneV, "raised", r.exc>>
\* select_weather_by_eta(live=, forecast=, eta_time=): the try block with its
\* except Exception handler.
select_weather_by_eta(live, forecast, eta_time, clock) ==
    LET r == SelectTry(live, forecast, eta_time, clock)
    IN IF r.ok THEN r.val
       ELSE IF Truthy(live) THEN <<live, "live", "forecast_select_error:" \o r.exc>>
       ELSE <<NoneV, "none", "forecast_select_error:" \o r.exc>>

-----------------------------------------------------------------------------
\* Python float arithmetic (IEEE 754 binary64) on the non-negative values the
\* code computes with.  A float is [m, e], the value m * 2^e, with m a
\* natural number held as little-endian limbs of LimbBits bits (no leading
\* zero limb; <<>> is zero).  Every operation computes the exact result and
\* rounds it to a 53-bit significand, ties to even, as the hardware does.

MantBits == 53
LimbBits == 15
Base == 2^15

Pow2(k) == 2^k

RECURSIVE IntBitLen(_)
IntBitLen(n) == IF n = 0 THEN 0 ELSE 1 + IntBitLen(n \div 2)

RECURSIVE BigOfInt(_)
BigOfInt(n) == IF n = 0 THEN <<>> ELSE <<n % Base>> \o BigOfInt(n \div Base)

RECURSIVE BigToInt(_)
BigToInt(a) == IF a = <<>> THEN 0 ELSE Head(a) + Base * BigToInt(Tail(a))

RECURSIVE BigNorm(_)
BigNorm(a) ==
    IF a # <<>> /\ a[Len(a)] = 0 THEN BigNorm(SubSeq(a, 1, Len(a) - 1)) ELSE a

\* a + b + c for a carry c
RECURSIVE BigAddC(_, _, _)
BigAddC(a, b, c) ==
    IF a = <<>> /\ b = <<>> THEN BigOfInt(c)
    ELSE LET x == (IF a = <<>> THEN 0 ELSE Head(a)) + (IF b = <<>> THEN 0 ELSE Head(b)) + c
         IN <<x % Base>> \o BigAddC(IF a = <<>> THEN <<>> ELSE Tail(a),
                                     IF b = <<>> THEN <<>> ELSE Tail(b), x \div Base)

\* a * n + c for a limb n
RECURSIVE BigMulSmall(_, _, _)
BigMulSmall(a, n, c) ==
    IF a = <<>> THEN BigOfInt(c)
    ELSE LET x == Head(a) * n + c
         IN <<x % Base>> \o BigMulSmall(Tail(a), n, x \div Base)

RECURSIVE BigMul(_, _)
BigMul(a, b) ==
    IF a = <<>> \/ b = <<>> THEN <<>>
    ELSE BigNorm(BigAddC(BigMulSmall(a, Head(b), 0), <<0>> \o BigMul(a, Tail(b)), 0))

BigBitLen(a) ==
    IF a = <<>> THEN 0 ELSE LimbBits * (Len(a) - 1) + IntBitLen(a[Len(a)])
\* bit j of a, bit 0 the lowest
BigBit(a, j) ==
    LET q == j \div LimbBits + 1
    IN IF q > Len(a) THEN 0 ELSE (a[q] \div Pow2(j % LimbBits)) % 2
\* some bit of a below bit j is set
BigLowBits(a, j) ==
    \/ \E q \in 1..(j \div LimbBits) : q <= Len(a) /\ a[q] # 0
    \/ /\ j \div LimbBits + 1 <= Len(a)
       /\ a[j \div LimbBits + 1] % Pow2(j % LimbBits) # 0
\* a \div 2^k
BigShr(a, k) ==
    LET ls == k \div LimbBits
        bs == k % LimbBits
        n == Len(a) - ls
    IN IF n <= 0 THEN <<>>
       ELSE BigNorm([j \in 1..n |->
                (a[j + ls] \div Pow2(bs))
                + (IF j + ls < Len(a)
                   THEN (a[j + ls + 1] % Pow2(bs)) * Pow2(LimbBits - bs) ELSE 0)])

FZero == [m |-> <<>>, e |-> 0]
\* float(n) of an integer below 2^53
FOfInt(n) == [m |-> BigOfInt(n), e |-> 0]

\* the float nearest to m * 2^e, ties to even
FRound(m, e) ==
    IF BigBitLen(m) <= MantBits THEN [m |-> m, e |-> e]
    ELSE LET k == BigBitLen(m) - MantBits
             up == BigBit(m, k - 1) = 1 /\ (BigLowBits(m, k - 1) \/ BigBit(m, k) = 1)
         IN [m |-> IF up THEN BigAddC(BigShr(m, k), <<>>, 1) ELSE BigShr(m, k), e |-> e + k]

\* a / b of two integers, a >= 0 < b < 2^16: the correctly rounded quotient.
\* Long division in base 2^15: the integer part, then five limbs of the
\* fraction (59 significant bits at least, the quotient being 2^-16 at
\* least), then a lowest limb that is 1 when a remainder is left, so that
\* the rounding sees every bit it needs.
FDiv(a, b) ==
    IF a % b = 0 THEN FOfInt(a \div b)
    ELSE LET r1 == ((a % b) * Base) % b
             r2 == (r1 * Base) % b
             r3 == (r2 * Base) % b
             r4 == (r3 * Base) % b
             r5 == (r4 * Base) % b
         IN FRound(BigNorm(<<IF r5 # 0 THEN 1 ELSE 0,
                             (r4 * Base) \div b, (r3 * Base) \div b, (r2 * Base) \div b,
                             (r1 * Base) \div b, ((a % b) * Base) \div b>>
                           \o BigOfInt(a \div b)),
                   -(6 * LimbBits))

\* x * y
FMul(x, y) == FRound(BigMul(x.m, y.m), x.e + y.e)

\* int(x): truncation
FInt(x) ==
    IF x.e >= 0 THEN BigToInt(x.m) * Pow2(x.e) ELSE BigToInt(BigShr(x.m, -x.e))

-----------------------------------------------------------------------------
\* pick_waypoint_points

max_points == 12

\* int(float(x)) of a numeric field given in tenths: truncation toward zero
IntFloat(x10) == IF x10 >= 0 THEN x10 \div 10 ELSE -((-x10) \div 10)

\* poly.split(";") if poly else []: the polyline string, a sequence of
\* tokens, cut at every ";" token (an empty string gives no point at all, a
\* trailing or doubled separator gives an empty point string)
RECURSIVE SplitFrom(_, _, _)
SplitFrom(poly, k, pt) ==
    IF k > Len(poly) THEN <<pt>>
    ELSE IF poly[k] = ";" THEN <<pt>> \o SplitFrom(poly, k + 1, <<>>)
    ELSE SplitFrom(poly, k + 1, Append(pt, poly[k]))
Split(poly) == IF poly = <<>> THEN <<>> ELSE SplitFrom(poly, 1, <<>>)

\* total += dur over every step, with or without a polyline
RECURSIVE TotalDuration(_)
TotalDuration(steps) ==
    IF steps = <<>> THEN 0
    ELSE IntFloat(Head(steps).duration) + TotalDuration(Tail(steps))

\* segments: (pts, dur) of the steps whose polyline has points
RECURSIVE Segments(_)
Segments(steps) ==
    IF steps = <<>> THEN <<>>
    ELSE LET pts == Split(Head(steps).polyline)
         IN (IF pts # <<>>
             THEN <<[pts |-> pts, dur |-> IntFloat(Head(steps).duration)]>>
             ELSE <<>>) \o Segments(Tail(steps))

\* target_times[i] = int(total * (i + 1) / (max_points + 1)), i from 0
TargetTime(total, k, mp) == FInt(FDiv(total * (k + 1), mp + 1))

\* while seg_idx < len(segments) and t_acc + segments[seg_idx][1] < tt
RECURSIVE Advance(_, _, _, _)
Advance(segments, seg_idx, t_acc, tt) ==
    IF seg_idx < Len(segments) /\ t_acc + segments[seg_idx + 1].dur < tt
    THEN Advance(segments, seg_idx + 1, t_acc + segments[seg_idx + 1].dur, tt)
    ELSE [seg_idx |-> seg_idx, t_acc |-> t_acc]

\* frac = max(0.0, min(1.0, (tt - t_acc) / dur)) for dur > 0: the quotient is
\* below 0.0 or above 1.0 exactly when the integers say so
Frac(tt, t_acc, dur) ==
    IF tt - t_acc <= 0 THEN FZero
    ELSE IF tt - t_acc >= dur THEN FOfInt(1)
    ELSE FDiv(tt - t_acc, dur)
\* pt_idx = int(frac * (len(pts) - 1)) if len(pts) > 1 else 0
PtIdx(tt, t_acc, dur, npts) ==
    IF npts > 1 THEN FInt(FMul(Frac(tt, t_acc, dur), FOfInt(npts - 1))) ELSE 0

\* One pass of the loop "for tt in target_times" on the walk's state
\* [t_acc, seg_idx, out, brk]: brk is set by the break.
WalkTarget(segments, st, tt) ==
    LET a == Advance(segments, st.seg_idx, st.t_acc, tt)
    IN IF a.seg_idx >= Len(segments)
       THEN [t_acc |-> a.t_acc, seg_idx |-> a.seg_idx, out |-> st.out, brk |-> TRUE]
       ELSE LET seg == segments[a.seg_idx + 1]
            IN IF seg.dur <= 0
               THEN [t_acc |-> a.t_acc, seg_idx |-> a.seg_idx, out |-> st.out, brk |-> FALSE]
               ELSE [t_acc |-> a.t_acc, seg_idx |-> a.seg_idx,
                     out |-> Append(st.out,
                                    [loc |-> seg.pts[PtIdx(tt, a.t_acc, seg.dur, Len(seg.pts)) + 1],
                                     eta_min |-> FInt(FDiv(tt, 60))]),
                     brk |-> FALSE]

RECURSIVE WalkFrom(_, _, _, _, _)
WalkFrom(segments, total, k, st, mp) ==
    IF k >= mp \/ st.brk THEN st
    ELSE WalkFrom(segments, total, k + 1, WalkTarget(segments, st, TargetTime(total, k, mp)), mp)

\* de-dup by location, first occurrence kept
RECURSIVE DedupFrom(_, _, _)
DedupFrom(out, k, seen) ==
    IF k > Len(out) THEN <<>>
    ELSE IF out[k].loc \in seen THEN DedupFrom(out, k + 1, seen)
    ELSE <<out[k]>> \o DedupFrom(out, k + 1, seen \cup {out[k].loc})
Dedup(out) == DedupFrom(out, 1, {})

WalkStart == [t_acc |-> 0, seg_idx |-> 0, out |-> <<>>, brk |-> FALSE]

pick_waypoint_points(steps, mp) ==
    IF TotalDuration(steps) <= 0 \/ Segments(steps) = <<>> THEN <<>>
    ELSE Dedup(WalkFrom(Segments(steps), TotalDuration(steps), 0, WalkStart, mp).out)

-----------------------------------------------------------------------------
\* Provider client.  A provider response is what client.get returned:
\* [http |-> "ok" | "error", status |-> "1" | "0", <payload fields>];
\* r.raise_for_status() raises httpx.HTTPStatusError when http is "error".
\* Optional strings of a payload are plain strings, "None" for an absent one.

TruthyStr(x) == x # "None" /\ x # ""

\* amap_geocode(client, address, key)
amap_geocode(resp, address) ==
    IF resp.http # "ok" THEN Raise("HTTPStatusError")
    ELSE IF resp.status # "1" \/ resp.geocodes = <<>> THEN Raise("HTTPException")
    ELSE LET g == resp.geocodes[1]
         IN Ok([formatted |-> IF TruthyStr(g.formatted_address)
                              THEN g.formatted_address ELSE address,
                location |-> g.location])

\* the dict literal of strategy_to_amap
StrategyTable ==
    [fastest |-> "0", avoid_highway |-> "1", avoid_tolls |-> "2", avoid_congestion |-> "3"]

\* strategy_to_amap(strategy): a missing key raises KeyError
strategy_to_amap(strategy) ==
    IF strategy \in DOMAIN StrategyTable THEN Ok(StrategyTable[strategy])
    ELSE Raise("KeyError")

\* amap_route(...) once the request was sent
amap_route(resp) ==
    IF resp.http # "ok" THEN Raise("HTTPStatusError")
    ELSE IF resp.status # "1" \/ resp.paths = <<>> THEN Raise("HTTPException")
    ELSE Ok(resp)

\* amap_weather_live(client, adcode_or_city, key)
amap_weather_live(resp) ==
    IF resp.http # "ok" THEN Raise("HTTPStatusError")
    ELSE IF resp.status # "1" \/ resp.lives = <<>> THEN Ok(NoneV)
    ELSE Ok(resp.lives[1])

\* amap_weather_forecast(client, adcode_or_city, key)
amap_weather_forecast(resp) ==
    IF resp.http # "ok" THEN Raise("HTTPStatusError")
    ELSE IF resp.status # "1" \/ resp.forecasts = <<>> THEN Ok(NoneV)
    ELSE Ok(resp.forecasts[1])

\* amap_regeo_citycode(client, location, key)
amap_regeo_citycode(resp) ==
    IF resp.http # "ok" THEN Raise("HTTPStatusError")
    ELSE IF resp.status # "1" THEN Ok(NoneV)
    ELSE Ok([t |-> "dict", empty |-> FALSE,
             adcode |-> resp.comp.adcode,
             city |-> IF TruthyStr(resp.comp.city) THEN resp.comp.city
                      ELSE resp.comp.province])

\* extract_cross_cities_v5(path): first occurrence of every adcode, entries
\* without an adcode dropped, name = city or adcode
RECURSIVE CitiesOf(_)
CitiesOf(steps) ==
    IF steps = <<>> THEN <<>> ELSE Head(steps).cities \o CitiesOf(Tail(steps))
RECURSIVE UniqueCities(_, _, _)
UniqueCities(cs, k, seen) ==
    IF k > Len(cs) THEN <<>>
    ELSE IF ~TruthyStr(cs[k].adcode) \/ cs[k].adcode \in seen
         THEN UniqueCities(cs, k + 1, seen)
    ELSE <<[adcode |-> cs[k].adcode,
            name |-> IF TruthyStr(cs[k].city) THEN cs[k].city ELSE cs[k].adcode]>>
         \o UniqueCities(cs, k + 1, seen \cup {cs[k].adcode})
extract_cross_cities_v5(path) == UniqueCities(CitiesOf(path.steps), 1, {})

-----------------------------------------------------------------------------
\* route_weather: the pure parts

AnyStrategy == {"fastest", "avoid_highway", "avoid_tolls", "avoid_congestion", "shortest"}
\* RouteRequest.strategy: Literal[...]
ValidStrategies == {"fastest", "avoid_highway", "avoid_tolls", "avoid_congestion"}

\* duration_s: path.duration, else cost.duration, else 0 (numeric fields in
\* tenths, 0 for an absent or zero field)
ResolveDuration(path) ==
    IF IntFloat(path.duration) > 0 THEN IntFloat(path.duration)
    ELSE IntFloat(path.cost_duration)

\* depart_at: now when absent, Asia/Shanghai when naive
NormalizeDepart(d, clock) ==
    IF d = NoneV THEN [wall |-> clock, off |-> 0, aware |-> TRUE]
    ELSE IF ~d.aware THEN [wall |-> d.wall, off |-> TzShanghai, aware |-> TRUE]
    ELSE d

\* eta_min = int(((i + 1) / (n + 1)) * (duration_s / 60)) if duration_s > 0 else 0
EtaCross(k, n, dur) ==
    IF dur > 0 THEN FInt(FMul(FDiv(k + 1, n + 1), FDiv(dur, 60))) ELSE 0

FetchErrorUnset(exc) == <<NoneV, "None", "None">>
\* except Exception as e: (None, "none", f"weather_fetch_error:{type(e).__name__}")
FetchError(exc) == <<NoneV, "none", "weather_fetch_error:" \o exc>>

\* What the try block around the two fetches and the selection did: the
\* triple it left in (weather, weather_source, weather_error), whether a
\* fetch raised, whether the selection failed internally, the live reading.
\* A fetch raised exc:
FetchRaised(exc, live) ==
    [res |-> FetchError(exc), fetch_raised |-> TRUE, select_failed |-> FALSE, live |-> live]
\* both fetches returned and select_weather_by_eta ran, reading the clock
Selected(live, forecast, eta_time, clock) ==
    [res |-> select_weather_by_eta(live, forecast, eta_time, clock),
     fetch_raised |-> FALSE,
     select_failed |-> ~SelectTry(live, forecast, eta_time, clock).ok,
     live |-> live]

MissingCityKeyUnset == <<NoneV, "None", "missing_city_key">>
\* else: weather_source = "none"; weather_error = "missing_city_key"
MissingCityKey == <<NoneV, "none", "missing_city_key">>

\* WaypointWeather(...): pydantic rejects a name that is not a string
WaypointWeather(name, loc, eta_min, eta_time, adcode, res) ==
    IF name = "None" THEN Raise("ValidationError")
    ELSE Ok([name |-> name, location |-> loc, eta_minutes |-> eta_min,
             eta_time |-> eta_time, adcode |-> adcode,
             weather |-> res[1], weather_source |-> res[2], weather_error |-> res[3]])

\* the status FastAPI answers with when the exception leaves the handler
StatusOf(exc) ==
    CASE exc = "HTTPException" -> 400
      [] exc = "RequestValidationError" -> 422
      [] OTHER -> 500

-----------------------------------------------------------------------------
\* Provider payloads the model draws from

MaxCasts == 2
MaxTicks == 3

LiveRec == [t |-> "dict", empty |-> FALSE, weather |-> Str("cloudy"),
            temperature |-> Str("21"), reporttime |-> Str("t0")]
LiveValues == {NoneV, EmptyDict, LiveRec}

Dt(wall, off, aware) == [wall |-> wall, off |-> off, aware |-> aware]

\* the daily cast of day number d (0 is 1970-01-01), dated as the provider
\* dates it
Cast(d) == [t |-> "dict", empty |-> FALSE,
            date |-> IsoDate(Dt(d * DayS, 0, TRUE)),
            dayweather |-> Str("dw" \o ToString(d)), nightweather |-> Str("nw" \o ToString(d)),
            daytemp |-> Str("dt" \o ToString(d)), nighttemp |-> Str("nt" \o ToString(d)),
            daywind |-> Str("N"), nightwind |-> Str("S"),
            daypower |-> Str("3"), nightpower |-> Str("2")]
CastValues == {Cast(-1), Cast(0), Cast(1), Cast(11), Str("junk")}

SeqsUpTo(S, n) == UNION {[1..k -> S] : k \in 0..n}

ForecastOf(casts) == [t |-> "dict", empty |-> FALSE, casts |-> casts,
                      reporttime |-> Str("t1"), city |-> Str("X"), province |-> Str("P")]
ForecastValues ==
    {NoneV, EmptyDict, Str("junk"),
     ForecastOf(NoneV), ForecastOf(Str("junk")), ForecastOf(Num(0)), ForecastOf(Num(5)),
     ForecastOf(EmptyDict), ForecastOf([t |-> "dict", empty |-> FALSE, x |-> Str("1")])}
    \cup {ForecastOf(List(q)) : q \in SeqsUpTo(CastValues, MaxCasts)}

EtaWalls == {HourS, 2 * HourS, 2 * HourS + 1, 10 * HourS, 20 * HourS,
             DayS + 7 * HourS, DayS + 6 * HourS, 3 * DayS, 11 * DayS + 7 * HourS}
EtaTimes == {Dt(w, 0, FALSE) : w \in EtaWalls}
            \cup {Dt(w, 0, TRUE) : w \in EtaWalls}
            \cup {Dt(w, TzShanghai, TRUE) : w \in EtaWalls}

-----------------------------------------------------------------------------
\* The selector called twice on the same inputs, the clock moving between

SelIdle ==
    /\ s_pc = "idle" /\ s_live = NoneV /\ s_forecast = NoneV
    /\ s_eta = Dt(0, 0, TRUE) /\ s_now1 = 0
    /\ s_res1 = <<NoneV, "None", "None">> /\ s_res2 = <<NoneV, "None", "None">>

SelInit ==
    /\ s_pc = "call1"
    /\ s_live \in LiveValues
    /\ s_forecast \in ForecastValues
    /\ s_eta \in EtaTimes
    /\ s_now1 = 0
    /\ s_res1 = <<NoneV, "None", "None">>
    /\ s_res2 = <<NoneV, "None", "None">>
    /\ now = 0

\* the wall clock advances
Tick(d) ==
    /\ now + d <= MaxTicks * HourS
    /\ now' = now + d

SelTick ==
    /\ s_pc \in {"call1", "call2"}
    /\ Tick(HourS)
    /\ UNCHANGED <<selVars, reqVars, pickVars>>

SelCall1 ==
    /\ s_pc = "call1"
    /\ s_res1' = select_weather_by_eta(s_live, s_forecast, s_eta, now)
    /\ s_now1' = now
    /\ s_pc' = "call2"
    /\ UNCHANGED <<s_live, s_forecast, s_eta, s_res2, now, reqVars, pickVars>>

SelCall2 ==
    /\ s_pc = "call2"
    /\ s_res2' = select_weather_by_eta(s_live, s_forecast, s_eta, now)
    /\ s_pc' = "done"
    /\ UNCHANGED <<s_live, s_forecast, s_eta, s_res1, s_now1, now, reqVars, pickVars>>

-----------------------------------------------------------------------------
\* The sampling walk, one target time per step

MaxSteps == 2

\* a polyline of n points p0;p1;...
RECURSIVE LongPoly(_)
LongPoly(n) ==
    IF n = 1 THEN <<"p0">> ELSE LongPoly(n - 1) \o <<";", "p" \o ToString(n - 1)>>
PolyValues == {<<>>, <<"a">>, <<"a", ";", "b">>, <<"c", ";", "d", ";", "e">>, <<"b", ";">>,
               LongPoly(23)}
\* durations as the provider sends them, in tenths of a second
DurValues == {0, 4 * 10 + 5, 22 * 10, 90 * 10, 400 * 10, -(4 * 10 + 5)}
Step(poly, dur, cities) == [polyline |-> poly, duration |-> dur, cities |-> cities]
PlainSteps == {Step(pl, d, <<>>) : pl \in PolyValues, d \in DurValues}

PickIdle ==
    /\ p_pc = "idle" /\ p_steps = <<>> /\ p_ti = 0 /\ p_tacc = 0 /\ p_seg = 0
    /\ p_out = <<>>

PickInit ==
    /\ p_pc = "start"
    /\ p_steps \in SeqsUpTo(PlainSteps, MaxSteps)
    /\ p_ti = 0 /\ p_tacc = 0 /\ p_seg = 0 /\ p_out = <<>>

\* lines 246-263: flatten, the early return, the walk's initial state
PickStart ==
    /\ p_pc = "start"
    /\ IF TotalDuration(p_steps) <= 0 \/ Segments(p_steps) = <<>>
       THEN p_pc' = "done"
       ELSE p_pc' = "walk"
    /\ UNCHANGED <<p_steps, p_ti, p_tacc, p_seg, p_out, now, reqVars, selVars>>

\* lines 265-278: one iteration of "for tt in target_times"
PickTarget ==
    /\ p_pc = "walk"
    /\ p_ti < max_points
    /\ LET st == WalkTarget(Segments(p_steps),
                            [t_acc |-> p_tacc, seg_idx |-> p_seg, out |-> p_out, brk |-> FALSE],
                            TargetTime(TotalDuration(p_steps), p_ti, max_points))
       IN /\ p_tacc' = st.t_acc
          /\ p_seg' = st.seg_idx
          /\ p_out' = st.out
          /\ p_ti' = p_ti + 1
          /\ p_pc' = IF st.brk THEN "dedup" ELSE "walk"
    /\ UNCHANGED <<p_steps, now, reqVars, selVars>>

\* the loop ends after the last target time
PickLoopEnd ==
    /\ p_pc = "walk"
    /\ p_ti >= max_points
    /\ p_pc' = "dedup"
    /\ UNCHANGED <<p_steps, p_ti, p_tacc, p_seg, p_out, now, reqVars, selVars>>

\* lines 280-288
PickDedup ==
    /\ p_pc = "dedup"
    /\ p_out' = Dedup(p_out)
    /\ p_pc' = "done"
    /\ UNCHANGED <<p_steps, p_ti, p_tacc, p_seg, now, reqVars, selVars>>

-----------------------------------------------------------------------------
\* One POST /api/route request

HttpError == [http |-> "error"]

\* the four cities of the short route
CityW(k) == [adcode |-> "2" \o ToString(k) \o "0000", city |-> "W" \o ToString(k)]
ShortRouteKeys == {CityW(k).adcode : k \in 1..4}
ShortRouteNames == {CityW(k).city : k \in 1..4}

\* the provider's answers to a geocode of address: the destination and the
\* city B have no formatted_address
GeocodeResponses(address) ==
    (IF address \in ShortRouteNames THEN {HttpError}
     ELSE {HttpError,
           [http |-> "ok", status |-> "0", geocodes |-> <<>>],
           [http |-> "ok", status |-> "1", geocodes |-> <<>>]})
    \cup
    {
     [http |-> "ok", status |-> "1",
      geocodes |-> <<[formatted_address |-> IF address \in {"dest", "120000"}
                                            THEN "None" ELSE "F:" \o address,
                      location |-> <<"g:" \o address>>]>>]}

CityA == [adcode |-> "110000", city |-> "A"]
CityB == [adcode |-> "120000", city |-> "None"]
CityNoAdcode == [adcode |-> "None", city |-> "C"]

CityC == [adcode |-> "130000", city |-> "C"]

Path(d, cd, steps) == [duration |-> d, cost_duration |-> cd, steps |-> steps]
\* the routes the provider answers with:
\*   three cross cities (an entry without adcode, one repeated), duration
\*   from cost; two cross cities in one step; one cross city on a route without a
\*   duration; sampled points over two segments; a zero-duration first
\*   segment on a short route; no steps; a step without polyline; four
\*   cross cities on a route of 700 s
RoutePaths ==
    {Path(0, 18000 * 10 + 5,
          <<Step(<<"a">>, 90 * 10, <<CityA, CityNoAdcode>>),
            Step(<<"b">>, 900 * 10, <<CityB, CityA, CityC>>)>>),
     Path(7200 * 10, 0,
          <<Step(<<"a">>, 90 * 10, <<CityB, CityA>>)>>),
     Path(0, 0,
          <<Step(<<"a">>, 0, <<CityC>>)>>),
     Path(0, 0,
          <<Step(<<"a", ";", "b", ";", "c">>, 400 * 10, <<>>),
            Step(<<"d">>, 0, <<>>)>>),
     Path(4 * 10, 0,
          <<Step(<<"d">>, 0, <<>>),
            Step(<<"a", ";", "b", ";", "c">>, 4 * 10 + 5, <<CityNoAdcode>>)>>),
     Path(0, 0, <<>>),
     Path(900 * 10, 0, <<Step(<<>>, 900 * 10, <<CityNoAdcode>>)>>),
     Path(700 * 10, 0,
          <<Step(<<"a">>, 300 * 10, <<CityW(1), CityW(2)>>),
            Step(<<"b">>, 400 * 10, <<CityW(3), CityW(4)>>)>>)}
RouteResponses ==
    {HttpError,
     [http |-> "ok", status |-> "0", paths |-> <<>>],
     [http |-> "ok", status |-> "1", paths |-> <<>>]}
    \cup {[http |-> "ok", status |-> "1", paths |-> <<pth>>] : pth \in RoutePaths}

\* the provider's weather answers for a city key: every kind of answer,
\* but for the cities of the short route a reading and a two-day forecast
LiveResponses(key) ==
    (IF key \in ShortRouteKeys THEN {}
     ELSE {HttpError,
           [http |-> "ok", status |-> "0", lives |-> <<>>]})
    \cup {[http |-> "ok", status |-> "1", lives |-> <<LiveRec>>]}
ForecastResponses(key) ==
    (IF key \in ShortRouteKeys THEN {}
     ELSE {HttpError,
           [http |-> "ok", status |-> "1", forecasts |-> <<>>],
           [http |-> "ok", status |-> "1", forecasts |-> <<ForecastOf(List(<<>>))>>],
           [http |-> "ok", status |-> "1", forecasts |-> <<ForecastOf(List(<<Str("junk")>>))>>],
           [http |-> "ok", status |-> "1",
            forecasts |-> <<ForecastOf([t |-> "dict", empty |-> FALSE, x |-> Str("1")])>>]})
    \cup {[http |-> "ok", status |-> "1", forecasts |-> <<ForecastOf(List(<<Cast(0), Cast(1)>>))>>]}
RegeoResponses ==
    {HttpError,
     [http |-> "ok", status |-> "0"]}
    \cup {[http |-> "ok", status |-> "1",
           comp |-> [adcode |-> a, city |-> c, province |-> pv]] :
             a \in {"None", "310000"}, c \in {"", "S"}, pv \in {"None", "SP"}}

Request(strategy, d) == [strategy |-> strategy, depart_at |-> d]
\* the request bodies: every strategy, one unsupported value; depart_at
\* absent, naive and aware
Requests ==
    {Request("fastest", NoneV),
     Request("avoid_highway", Dt(10 * HourS, 0, FALSE)),
     Request("avoid_tolls", Dt(DayS + 7 * HourS, 0, TRUE)),
     Request("avoid_congestion", NoneV),
     Request("shortest", NoneV)}

NoError == [exc |-> "None", site |-> "None"]

\* the locals of a loop iteration: name, loc (location or point), eta_min,
\* eta_time, adcode, the key of the weather calls, whether the reverse
\* geocoding gave no result, and the live reading once fetched
NoCur == [name |-> "None", loc |-> <<>>, eta_min |-> 0, eta_time |-> Dt(0, 0, TRUE),
          adcode |-> "None", key |-> "None", regeo_failed |-> FALSE, live |-> NoneV]

ReqIdle ==
    /\ pc = "idle" /\ req = [strategy |-> "fastest", depart_at |-> NoneV]
    /\ env_key = TRUE /\ calls = <<>> /\ failed_at = 0 /\ error = NoError
    /\ origin = NoneV /\ dest = NoneV /\ duration_s = 0 /\ depart_at = NoneV
    /\ branch = "None" /\ items = <<>> /\ i = 0 /\ cur = NoCur
    /\ wlog = <<>> /\ waypoints = <<>>
    /\ response = NoneV

ReqInit ==
    /\ pc = "start"
    /\ req \in Requests
    /\ env_key \in BOOLEAN
    /\ now = 0
    /\ calls = <<>> /\ failed_at = 0 /\ error = NoError
    /\ origin = NoneV /\ dest = NoneV /\ duration_s = 0 /\ depart_at = NoneV
    /\ branch = "None" /\ items = <<>> /\ i = 0 /\ cur = NoCur
    /\ wlog = <<>> /\ waypoints = <<>>
    /\ response = NoneV

\* the exception exc leaves the handler at site
Abort(exc, site) ==
    /\ pc' = "failed"
    /\ error' = [exc |-> exc, site |-> site]

\* the wall clock advances while the request waits on the provider
ReqTick ==
    /\ pc \in {"route", "city_geocode", "regeo", "live", "forecast"}
    /\ Tick(2 * HourS)
    /\ UNCHANGED <<reqVars, selVars, pickVars>>

\* The handler runs from one await to the next without interruption: pc names
\* the await it is suspended at, and calls holds every provider call issued so
\* far, the one being awaited included.  Each action takes the answer to the
\* awaited call and runs the code up to the next await.

\* the request body is validated against RouteRequest, then
\* amap_key = get_env("AMAP_API_KEY"), and the geocoding of the origin is
\* issued
Receive ==
    /\ pc = "start"
    /\ IF req.strategy \notin ValidStrategies
       THEN Abort("RequestValidationError", "validate") /\ calls' = calls
       ELSE IF ~env_key THEN Abort("RuntimeError", "get_env") /\ calls' = calls
       ELSE /\ calls' = Append(calls, [kind |-> "geocode", address |-> "origin"])
            /\ pc' = "geo_origin" /\ error' = error
    /\ UNCHANGED <<req, env_key, now, failed_at, origin, dest, duration_s,
                   depart_at, branch, items, i, cur, wlog, waypoints, response,
                   selVars, pickVars>>

\* origin = await amap_geocode(client, req.origin, amap_key); then the
\* geocoding of the destination is issued
GeocodeOrigin ==
    /\ pc = "geo_origin"
    /\ \E resp \in GeocodeResponses("origin") :
         LET g == amap_geocode(resp, "origin")
         IN IF g.ok
            THEN /\ origin' = g.val
                 /\ calls' = Append(calls, [kind |-> "geocode", address |-> "dest"])
                 /\ pc' = "geo_dest"
                 /\ UNCHANGED <<error, failed_at>>
            ELSE /\ Abort(g.exc, "geocode_origin")
                 /\ failed_at' = Len(calls)
                 /\ UNCHANGED <<origin, calls>>
    /\ UNCHANGED <<req, env_key, now, dest, duration_s, depart_at, branch, items,
                   i, cur, wlog, waypoints, response, selVars, pickVars>>

\* dest = await amap_geocode(client, req.destination, amap_key); then
\* amap_route maps the strategy and issues the route request
GeocodeDest ==
    /\ pc = "geo_dest"
    /\ \E resp \in GeocodeResponses("dest") :
         LET g == amap_geocode(resp, "dest")
             code == strategy_to_amap(req.strategy)
         IN IF ~g.ok
            THEN /\ Abort(g.exc, "geocode_dest")
                 /\ failed_at' = Len(calls)
                 /\ UNCHANGED <<dest, calls>>
            ELSE /\ dest' = g.val
                 /\ IF code.ok
                    THEN /\ calls' = Append(calls, [kind |-> "route",
                                                    strategy |-> code.val])
                         /\ pc' = "route"
                         /\ UNCHANGED <<error, failed_at>>
                    ELSE /\ Abort(code.exc, "route")
                         /\ UNCHANGED <<calls, failed_at>>
    /\ UNCHANGED <<req, env_key, now, origin, duration_s, depart_at, branch, items,
                   i, cur, wlog, waypoints, response, selVars, pickVars>>

\* the head of the loop over its (the cross cities or the sampled points)
\* with k candidates done: the first provider call of the next candidate is
\* issued (line 337 or line 378), or the loop is over
LoopHead(br, its, k) ==
    IF k < Len(its)
    THEN IF br = "cities"
         THEN /\ calls' = Append(calls, [kind |-> "geocode",
                                         address |-> its[k + 1].name])
              /\ pc' = "city_geocode"
         ELSE /\ calls' = Append(calls, [kind |-> "regeo",
                                         location |-> its[k + 1].loc])
              /\ pc' = "regeo"
    ELSE /\ calls' = calls
         /\ pc' = "closing"

\* data = await amap_route(...), then lines 301-330 up to the choice of the
\* segmentation strategy, then the head of the chosen loop
Route ==
    /\ pc = "route"
    /\ \E resp \in RouteResponses :
         LET data == amap_route(resp)
         IN IF ~data.ok
            THEN /\ Abort(data.exc, "route")
                 /\ failed_at' = Len(calls)
                 /\ UNCHANGED <<calls, duration_s, depart_at, branch, items>>
            ELSE LET path == data.val.paths[1]
                     cross_cities == extract_cross_cities_v5(path)
                     br == IF cross_cities # <<>> THEN "cities" ELSE "points"
                     its == IF cross_cities # <<>> THEN cross_cities
                            ELSE pick_waypoint_points(path.steps, max_points)
                 IN /\ duration_s' = ResolveDuration(path)
                    /\ depart_at' = NormalizeDepart(req.depart_at, now)
                    /\ branch' = br
                    /\ items' = its
                    /\ LoopHead(br, its, 0)
                    /\ UNCHANGED <<error, failed_at>>
    /\ UNCHANGED <<req, env_key, now, origin, dest, i, cur, wlog, waypoints, response,
                   selVars, pickVars>>

\* what the weather calls of one candidate did, and the waypoint it became
\* (wp: its place in waypoints, 0 when none was appended; regeo_failed: the
\* reverse geocoding of a sampled point gave no result)
LogEntry(w, wp, regeo_failed) ==
    [fetch_raised |-> w.fetch_raised, select_failed |-> w.select_failed,
     live |-> w.live, wp |-> wp, regeo_failed |-> regeo_failed]
\* no weather call was made
NoWeatherCalls(res) ==
    [res |-> res, fetch_raised |-> FALSE, select_failed |-> FALSE, live |-> NoneV]

\* what every step of the loop leaves alone
LoopFrame ==
    UNCHANGED <<req, env_key, now, failed_at, origin, dest, duration_s, depart_at,
                branch, items, response, selVars, pickVars>>

\* lines 363-373: the end of a cross-city iteration with locals c and weather
\* outcome w; the waypoint is built and appended only if loc; then the head
\* of the loop
CityAppend(c, w) ==
    LET wp == WaypointWeather(c.name, c.loc, c.eta_min, c.eta_time, c.adcode, w.res)
    IN IF c.loc # <<>>
       THEN IF wp.ok
            THEN /\ waypoints' = Append(waypoints, wp.val)
                 /\ wlog' = Append(wlog, LogEntry(w, Len(waypoints) + 1, FALSE))
                 /\ i' = i + 1 /\ cur' = NoCur
                 /\ LoopHead(branch, items, i + 1)
                 /\ error' = error
            ELSE /\ Abort(wp.exc, "waypoint_model")
                 /\ UNCHANGED <<waypoints, wlog, i, cur, calls>>
       ELSE /\ wlog' = Append(wlog, LogEntry(w, 0, FALSE))
            /\ i' = i + 1 /\ cur' = NoCur
            /\ LoopHead(branch, items, i + 1)
            /\ UNCHANGED <<error, waypoints>>

\* lines 404-414: the end of a sampled-point iteration, then the head of the
\* loop
PointAppend(c, w) ==
    LET wp == WaypointWeather(c.name, c.loc, c.eta_min, c.eta_time, c.adcode, w.res)
    IN IF wp.ok
       THEN /\ waypoints' = Append(waypoints, wp.val)
            /\ wlog' = Append(wlog, LogEntry(w, Len(waypoints) + 1, c.regeo_failed))
            /\ i' = i + 1 /\ cur' = NoCur
            /\ LoopHead(branch, items, i + 1)
            /\ error' = error
       ELSE /\ Abort(wp.exc, "waypoint_model")
            /\ UNCHANGED <<waypoints, wlog, i, cur, calls>>

\* lines 337-351 of "for i, city in enumerate(cross_cities)": the awaited
\* geocode of the city name answers, loc, name, eta_min and eta_time are set,
\* and the live weather request is issued
CityGeocode ==
    /\ pc = "city_geocode" /\ branch = "cities" /\ i < Len(items)
    /\ \E gr \in GeocodeResponses(items[i + 1].name) :
         LET city == items[i + 1]
             g == amap_geocode(gr, city.name)
             eta_min == EtaCross(i, Len(items), duration_s)
         IN /\ cur' = [name |-> IF g.ok THEN g.val.formatted ELSE city.name,
                       loc |-> IF g.ok THEN g.val.location ELSE <<>>,
                       eta_min |-> eta_min,
                       eta_time |-> PlusMinutes(depart_at, eta_min),
                       adcode |-> city.adcode, key |-> city.adcode,
                       regeo_failed |-> FALSE, live |-> NoneV]
            /\ calls' = Append(calls, [kind |-> "weather_live", city |-> city.adcode])
            /\ pc' = "live"
    /\ UNCHANGED <<error, waypoints, wlog, i>>
    /\ LoopFrame

\* lines 351-352: live = await amap_weather_live(...) answers and the
\* forecast request is issued; an exception goes to the handler of lines
\* 356-359 and on to the end of the iteration
CityLive ==
    /\ pc = "live" /\ branch = "cities"
    /\ \E lr \in LiveResponses(cur.key) :
         LET l == amap_weather_live(lr)
         IN IF l.ok
            THEN /\ cur' = [cur EXCEPT !.live = l.val]
                 /\ calls' = Append(calls, [kind |-> "weather_forecast",
                                            city |-> cur.key])
                 /\ pc' = "forecast"
                 /\ UNCHANGED <<error, waypoints, wlog, i>>
            ELSE CityAppend(cur, FetchRaised(l.exc, NoneV))
    /\ LoopFrame

\* lines 352-373: forecast = await amap_weather_forecast(...) answers, the
\* selection, the handler, the end of the iteration
CityForecast ==
    /\ pc = "forecast" /\ branch = "cities"
    /\ \E fr \in ForecastResponses(cur.key) :
         LET f == amap_weather_forecast(fr)
         IN IF f.ok
            THEN CityAppend(cur, Selected(cur.live, f.val, cur.eta_time, now))
            ELSE CityAppend(cur, FetchRaised(f.exc, cur.live))
    /\ LoopFrame

\* lines 378-390 of "for idx, (loc, eta_min) in enumerate(points, start=1)":
\* the awaited reverse geocode answers, outside any try; with a city key the
\* live weather request is issued, without one the iteration ends at once
\* (lines 400-414)
PointRegeo ==
    /\ pc = "regeo" /\ branch = "points" /\ i < Len(items)
    /\ \E rr \in RegeoResponses :
         LET loc == items[i + 1].loc
             eta_min == items[i + 1].eta_min
             rg == amap_regeo_citycode(rr)
         IN IF ~rg.ok
            THEN /\ Abort(rg.exc, "regeo")
                 /\ UNCHANGED <<waypoints, wlog, i, cur, calls>>
            ELSE LET regeo == rg.val
                     adcode == IF Truthy(regeo) THEN regeo.adcode ELSE "None"
                     city_key == IF TruthyStr(adcode) THEN adcode
                                 ELSE IF Truthy(regeo) THEN regeo.city ELSE "None"
                     c == [name |-> IF Truthy(regeo) THEN regeo.city
                                    ELSE "Waypoint " \o ToString(i + 1),
                           loc |-> loc,
                           eta_min |-> eta_min,
                           eta_time |-> PlusMinutes(depart_at, eta_min),
                           adcode |-> adcode, key |-> city_key,
                           regeo_failed |-> ~Truthy(regeo), live |-> NoneV]
                 IN IF TruthyStr(city_key)
                    THEN /\ cur' = c
                         /\ calls' = Append(calls, [kind |-> "weather_live",
                                                    city |-> city_key])
                         /\ pc' = "live"
                         /\ UNCHANGED <<error, waypoints, wlog, i>>
                    ELSE PointAppend(c, NoWeatherCalls(MissingCityKey))
    /\ LoopFrame

\* lines 390-391: live = await amap_weather_live(...) answers and the
\* forecast request is issued; an exception goes to the handler of lines
\* 395-398 and on to the end of the iteration
PointLive ==
    /\ pc = "live" /\ branch = "points"
    /\ \E lr \in LiveResponses(cur.key) :
         LET l == amap_weather_live(lr)
         IN IF l.ok
            THEN /\ cur' = [cur EXCEPT !.live = l.val]
                 /\ calls' = Append(calls, [kind |-> "weather_forecast",
                                            city |-> cur.key])
                 /\ pc' = "forecast"
                 /\ UNCHANGED <<error, waypoints, wlog, i>>
            ELSE PointAppend(cur, FetchRaised(l.exc, NoneV))
    /\ LoopFrame

\* lines 391-414: forecast = await amap_weather_forecast(...) answers, the
\* selection, the handler, the end of the iteration
PointForecast ==
    /\ pc = "forecast" /\ branch = "points"
    /\ \E fr \in ForecastResponses(cur.key) :
         LET f == amap_weather_forecast(fr)
         IN IF f.ok
            THEN PointAppend(cur, Selected(cur.live, f.val, cur.eta_time, now))
            ELSE PointAppend(cur, FetchRaised(f.exc, cur.live))
    /\ LoopFrame

\* return RouteResponse(...) on leaving the "async with" block of line 296
Respond ==
    /\ pc = "closing"
    /\ response' = [t |-> "RouteResponse", origin |-> origin, destination |-> dest,
                    duration_s |-> duration_s, waypoints |-> waypoints]
    /\ pc' = "done"
    /\ UNCHANGED <<req, env_key, now, calls, failed_at, error, origin, dest, duration_s,
                   depart_at, branch, items, i, cur, wlog, waypoints, selVars, pickVars>>

-----------------------------------------------------------------------------
\* Specifications

Init == ReqInit /\ SelIdle /\ PickIdle
Next ==
    \/ ReqTick
    \/ Receive
    \/ GeocodeOrigin
    \/ GeocodeDest
    \/ Route
    \/ CityGeocode
    \/ CityLive
    \/ CityForecast
    \/ PointRegeo
    \/ PointLive
    \/ PointForecast
    \/ Respond
Spec == Init /\ [][Next]_vars

SelectInit == SelInit /\ ReqIdle /\ PickIdle
SelectNext == SelTick \/ SelCall1 \/ SelCall2
SpecSelect == SelectInit /\ [][SelectNext]_vars

PickAllInit == PickInit /\ ReqIdle /\ SelIdle /\ now = 0
PickNext == PickStart \/ PickTarget \/ PickLoopEnd \/ PickDedup
SpecPick == PickAllInit /\ [][PickNext]_vars

-----------------------------------------------------------------------------
\* Properties of one request (checked under Spec)

WeatherFailed(e) == e.fetch_raised \/ e.select_failed
Degraded(w) ==
    /\ w.weather = NoneV
    /\ w.weather_source = "none"
    /\ w.weather_error \notin {"None", ""}

\* C1 as stated: whenever a weather fetch raised or the selection failed for
\* a candidate, the request is not aborted and the candidate's waypoint has
\* weather absent, weather_source "none" and a non-empty weather_error.
ClaimC1 ==
    \A k \in 1..Len(wlog) :
        WeatherFailed(wlog[k]) =>
            /\ pc # "failed"
            /\ wlog[k].wp # 0 => Degraded(waypoints[wlog[k].wp])

\* the waypoint of a candidate whose fetch raised has weather absent, source
\* "none" and the error weather_fetch_error:<type>; the waypoint of a
\* candidate whose selection failed has the error
\* forecast_select_error:<type> and carries the live reading with source
\* "live" when a live reading exists, weather absent with source "none"
\* otherwise
WeatherFailureShape ==
    /\ pc # "failed" => Len(wlog) = i
    /\ \A k \in 1..Len(wlog) :
         wlog[k].wp # 0 =>
            LET e == wlog[k]
                w == waypoints[e.wp]
            IN /\ e.fetch_raised =>
                    /\ Degraded(w)
                    /\ w.weather_error = "weather_fetch_error:HTTPStatusError"
               /\ e.select_failed =>
                    /\ w.weather_error \in {"forecast_select_error:AttributeError",
                                            "forecast_select_error:TypeError",
                                            "forecast_select_error:KeyError"}
                    /\ IF Truthy(e.live)
                       THEN w.weather = e.live /\ w.weather_source = "live"
                       ELSE w.weather = NoneV /\ w.weather_source = "none"

\* a step in which the answer to a weather call arrives: the request fails in
\* it only because the waypoint has no name, which the waypoint model rejects
\* whatever the weather; in every other case either the forecast is requested
\* next, or the candidate is done: it is logged (as a raised fetch when the
\* live call was the last one made), its waypoint is appended when it has a
\* location, and the following candidate is started or the loop is left
WeatherStepGoesOn ==
    (pc \in {"live", "forecast"} /\ pc' # pc) =>
        /\ pc' = "failed" =>
             /\ error'.site = "waypoint_model"
             /\ cur.name = "None"
        /\ pc' = "forecast" =>
             /\ i' = i /\ waypoints' = waypoints /\ wlog' = wlog
        /\ pc' \notin {"failed", "forecast"} =>
             /\ i' = i + 1
             /\ Len(wlog') = i'
             /\ pc = "live" => wlog'[i'].fetch_raised
             /\ IF cur.loc # <<>>
                THEN /\ Len(waypoints') = Len(waypoints) + 1
                     /\ wlog'[i'].wp = Len(waypoints')
                     /\ waypoints'[Len(waypoints')].name = cur.name
                ELSE /\ waypoints' = waypoints
                     /\ wlog'[i'].wp = 0
             /\ IF i' < Len(items)
                THEN /\ pc' \in {"city_geocode", "regeo"}
                     /\ Len(calls') = Len(calls) + 1
                ELSE pc' = "closing"

\* C1 (amended): a weather failure is contained in its waypoint and never
\* aborts the request by itself; processing goes on with the following
\* candidates.  The waypoint of a candidate whose fetch raised has weather
\* absent, source "none" and the error weather_fetch_error:<type>; the
\* waypoint of a candidate whose selection failed has the error
\* forecast_select_error:<type> and carries the live reading with source
\* "live" when a live reading exists, weather absent with source "none"
\* otherwise.
WeatherFailureContained ==
    /\ []WeatherFailureShape
    /\ [][WeatherStepGoesOn]_vars

\* a response in which the selection failed for one waypoint that kept its
\* live reading, and the fetch raised for a later one
WitnessC1 ==
    /\ pc = "done"
    /\ \E k \in 1..Len(wlog), m \in 1..Len(wlog) :
         /\ k < m
         /\ wlog[k].select_failed /\ Truthy(wlog[k].live) /\ wlog[k].wp # 0
         /\ wlog[m].fetch_raised /\ wlog[m].wp # 0

FatalSites == {"geocode_origin", "geocode_dest", "route"}
HttpStatus ==
    IF pc = "done" THEN 200 ELSE IF pc = "failed" THEN StatusOf(error.exc) ELSE 0

\* C2 as stated: a failure of the origin geocode, the destination geocode or
\* the route call aborts the request at once as a client error (4xx): no
\* RouteResponse, and the failing call is the last provider call issued.
ClaimC2 ==
    (pc = "failed" /\ error.site \in FatalSites) =>
        /\ HttpStatus \in 400..499
        /\ response = NoneV
        /\ Len(calls) = failed_at

\* C3: in every RouteResponse every waypoint has weather_source in
\* {live, forecast, none}, and weather_source is "none" exactly when weather
\* is absent.
SourceNoneIffNoWeather ==
    pc = "done" =>
        \A k \in 1..Len(response.waypoints) :
            LET w == response.waypoints[k]
            IN /\ w.weather_source \in {"live", "forecast", "none"}
               /\ (w.weather_source = "none") <=> (w.weather = NoneV)

\* a response over sampled points with a waypoint that had no city key and
\* one with forecast weather
WitnessC3 ==
    /\ pc = "done" /\ branch = "points"
    /\ \E k \in 1..Len(response.waypoints) :
         response.waypoints[k].weather_error = "missing_city_key"
    /\ \E k \in 1..Len(response.waypoints) :
         response.waypoints[k].weather_source = "forecast"

\* C4 as stated: in every RouteResponse the waypoints are in non-decreasing
\* order of eta_minutes; a cross-city waypoint that is candidate k of n
\* (from 1) has eta_minutes = floor(k / (n + 1) * duration_s / 60).
ClaimC4 ==
    pc = "done" =>
        /\ \A a \in 1..Len(response.waypoints), b \in 1..Len(response.waypoints) :
             a < b => response.waypoints[a].eta_minutes <= response.waypoints[b].eta_minutes
        /\ (branch = "cities" /\ duration_s > 0) =>
             \A k \in 1..Len(wlog) :
                wlog[k].wp # 0 =>
                    response.waypoints[wlog[k].wp].eta_minutes
                        = (k * duration_s) \div ((Len(items) + 1) * 60)

\* the ordering alone: in every RouteResponse the waypoints are in
\* non-decreasing order of eta_minutes
WaypointsOrdered ==
    pc = "done" =>
        \A a \in 1..Len(response.waypoints), b \in 1..Len(response.waypoints) :
            a < b => response.waypoints[a].eta_minutes <= response.waypoints[b].eta_minutes

ClaimedCode(strategy) ==
    CASE strategy = "fastest" -> "0"
      [] strategy = "avoid_highway" -> "1"
      [] strategy = "avoid_tolls" -> "2"
      [] strategy = "avoid_congestion" -> "3"
      [] OTHER -> "none"

\* C5: the route call carries the code fastest->0, avoid_highway->1,
\* avoid_tolls->2, avoid_congestion->3 of the request's strategy, and a
\* request with any other strategy fails with no provider call issued.
StrategyMappedOrRejected ==
    /\ \A k \in 1..Len(calls) :
         calls[k].kind = "route" =>
            /\ ClaimedCode(req.strategy) # "none"
            /\ calls[k].strategy = ClaimedCode(req.strategy)
    /\ ClaimedCode(req.strategy) = "none" =>
         /\ calls = <<>>
         /\ pc \in {"start", "failed"}
         /\ response = NoneV

\* a request with an unsupported strategy has failed, no call issued
WitnessC5 ==
    /\ pc = "failed" /\ req.strategy = "shortest"
    /\ error.site = "validate" /\ calls = <<>>

\* C6 as stated: with sampled points the request is never aborted, every
\* processed point has its waypoint, and a point whose reverse geocoding
\* failed has a placeholder name and no adcode.
ClaimC6 ==
    branch = "points" =>
        /\ pc # "failed"
        /\ Len(waypoints) = i
        /\ \A k \in 1..Len(wlog) :
             wlog[k].regeo_failed =>
                /\ waypoints[wlog[k].wp].name = "Waypoint " \o ToString(k)
                /\ waypoints[wlog[k].wp].adcode = "None"

-----------------------------------------------------------------------------
\* Properties of the selector (checked under SpecSelect)

\* the calendar dates of the day numbers on which the model's arrival times
\* fall (0 is 1970-01-01), written out
CalendarDate(d) ==
    CASE d = -1 -> "1969-12-31"
      [] d = 0 -> "1970-01-01"
      [] d = 1 -> "1970-01-02"
      [] d = 2 -> "1970-01-03"
      [] d = 3 -> "1970-01-04"
      [] d = 10 -> "1970-01-11"
      [] d = 11 -> "1970-01-12"

EtaInstant == IF s_eta.aware THEN s_eta.wall - s_eta.off ELSE s_eta.wall
LivePresent == Truthy(s_live)
\* the forecast is absent, or a record whose casts are absent or a list of
\* cast records
WellFormedForecast ==
    \/ ~Truthy(s_forecast)
    \/ /\ s_forecast.t = "dict"
       /\ \/ s_forecast.casts = NoneV
          \/ /\ s_forecast.casts.t = "list"
             /\ \A k \in 1..Len(s_forecast.casts.l) : s_forecast.casts.l[k].t = "dict"

\* C7: the first call's result follows the ordered decision procedure:
\* (1) eta_time - now <= 2 h and live present: (live, "live", no error);
\* (2) forecast absent: live if present, else (absent, "none",
\* "forecast_unavailable"); (3) casts empty: live if present, else (absent,
\* "none", "forecast_empty"); (4) the record of the first cast dated the UTC
\* day of eta_time, of the first cast if there is none, with the day fields
\* for a UTC hour in [6, 18) and the night fields otherwise, as
\* (record, "forecast", no error).
SelectionProcedure ==
    (s_pc # "call1" /\ WellFormedForecast) =>
        LET delta == EtaInstant - s_now1
            l == IF Truthy(s_forecast) /\ s_forecast.casts # NoneV
                 THEN s_forecast.casts.l ELSE <<>>
            day == CalendarDate(EtaInstant \div 86400)
            hour == (EtaInstant % 86400) \div 3600
            dated == {k \in 1..Len(l) : l[k].date = Str(day)}
            cast == IF dated = {} THEN l[1]
                    ELSE l[CHOOSE k \in dated : \A m \in dated : k <= m]
        IN  IF delta <= 2 * 3600 /\ LivePresent THEN s_res1 = <<s_live, "live", "None">>
            ELSE IF ~Truthy(s_forecast)
            THEN s_res1 = IF LivePresent THEN <<s_live, "live", "None">>
                          ELSE <<NoneV, "none", "forecast_unavailable">>
            ELSE IF l = <<>>
            THEN s_res1 = IF LivePresent THEN <<s_live, "live", "None">>
                          ELSE <<NoneV, "none", "forecast_empty">>
            ELSE /\ s_res1[2] = "forecast" /\ s_res1[3] = "None"
                 /\ s_res1[1]._forecast.date = cast.date
                 /\ s_res1[1]._forecast.dayweather = cast.dayweather
                 /\ s_res1[1]._forecast.nightweather = cast.nightweather
                 /\ s_res1[1].weather = IF 6 <= hour /\ hour < 18
                                        THEN cast.dayweather ELSE cast.nightweather
                 /\ s_res1[1].temperature = IF 6 <= hour /\ hour < 18
                                            THEN cast.daytemp ELSE cast.nighttemp

\* a live reading exists, the arrival is later than two hours and falls in
\* the daytime of 1970-01-12, the day of the second cast
WitnessC7 ==
    /\ s_pc = "call2" /\ LivePresent
    /\ s_forecast.t = "dict" /\ ~s_forecast.empty
    /\ s_forecast.casts = List(<<Cast(-1), Cast(11)>>)
    /\ s_res1[2] = "forecast"
    /\ s_res1[1].weather = Str("dw11")

\* C8: the selector always returns a triple with source in {live, forecast,
\* none}; when the procedure fails internally the triple is (live, "live",
\* "forecast_select_error:<type>") if a live reading exists and (absent,
\* "none", "forecast_select_error:<type>") otherwise.
SelectorNeverRaises ==
    s_pc # "call1" =>
        /\ s_res1[2] \in {"live", "forecast", "none"}
        /\ LET r == SelectTry(s_live, s_forecast, s_eta, s_now1)
           IN ~r.ok =>
                /\ r.exc \in {"AttributeError", "TypeError", "KeyError"}
                /\ s_res1[3] = "forecast_select_error:" \o r.exc
                /\ IF LivePresent THEN s_res1[1] = s_live /\ s_res1[2] = "live"
                   ELSE s_res1[1] = NoneV /\ s_res1[2] = "none"

\* a malformed forecast made the procedure fail while a live reading exists
WitnessC8 ==
    /\ s_pc = "call2" /\ LivePresent
    /\ ~SelectTry(s_live, s_forecast, s_eta, s_now1).ok
    /\ s_res1 = <<s_live, "live", "forecast_select_error:AttributeError">>

\* C9 as stated: two calls with the same live, forecast and eta_time return
\* the same triple, whenever they happen.
ClaimC9 == s_pc = "done" => s_res1 = s_res2

\* C9 (amended): two calls with the same inputs return the same triple when
\* there is no live reading, or when the two clock readings are on the same
\* side of eta_time - 2 h; the wall clock is the only other input.
SameResultUnlessThresholdCrossed ==
    (/\ s_pc = "done"
     /\ \/ ~LivePresent
        \/ (EtaInstant - s_now1 <= 2 * 3600) <=> (EtaInstant - now <= 2 * 3600))
    => s_res1 = s_res2

\* both calls, an hour or more apart, chose the forecast although a live
\* reading exists
WitnessC9 ==
    /\ s_pc = "done" /\ LivePresent /\ now > s_now1
    /\ s_res1[2] = "forecast" /\ s_res1 = s_res2

-----------------------------------------------------------------------------
\* Properties of the sampling walk (checked under SpecPick)

\* C10 as stated: a target time whose forward walk stops on a zero-duration
\* segment is still resolved and emits a sample.
ClaimC10 ==
    [][(/\ p_pc = "walk" /\ p_ti' = p_ti + 1
        /\ p_seg' < Len(Segments(p_steps))
        /\ Segments(p_steps)[p_seg' + 1].dur = 0)
       => Len(p_out') = Len(p_out) + 1]_vars

====
